---- MODULE Spec2Model ----
(***************************************************************************)
(* Model of elf-header-parser (src/src/main.rs): one run of main over a    *)
(* list of path arguments.  Bytes are naturals 0..255, a file is the       *)
(* sequence of its bytes (offset k of the file is element k+1), and an     *)
(* unsigned integer of w bytes is the sequence of its w base-256 digits,   *)
(* least significant first, so that 32- and 64-bit values keep their       *)
(* width.  A decimal string is the sequence of its digits, most            *)
(* significant first; a hexadecimal string likewise.                       *)
(***************************************************************************)
EXTENDS Integers, Sequences, FiniteSets, TLC

\* ------------------------------------------------------------------ bounds
MaxArgs == 2

\* --------------------------------------------------------------- constants
HEADER_MAGIC == <<127, 69, 76, 70>>

ELF64_ADDR_SIZE == 8
ELF64_OFF_SIZE == 8
ELF64_WORD_SIZE == 4
ELF64_HALF_SIZE == 2

E_TYPE_START_BYTE == 16
E_TYPE_SIZE_BYTE == ELF64_HALF_SIZE
E_MACHINE_START_BYTE == E_TYPE_START_BYTE + E_TYPE_SIZE_BYTE
E_MACHINE_SIZE_BYTE == ELF64_HALF_SIZE
E_VERSION_START_BYTE == E_MACHINE_START_BYTE + E_MACHINE_SIZE_BYTE
E_VERSION_SIZE_BYTE == ELF64_WORD_SIZE
E_ENTRY_START_BYTE == E_VERSION_START_BYTE + E_VERSION_SIZE_BYTE
E_ENTRY_SIZE_BYTE == ELF64_ADDR_SIZE
E_PHOFF_START_BYTE == E_ENTRY_START_BYTE + E_ENTRY_SIZE_BYTE
E_PHOFF_SIZE_BYTE == ELF64_OFF_SIZE
E_SHOFF_START_BYTE == E_PHOFF_START_BYTE + E_PHOFF_SIZE_BYTE
E_SHOFF_SIZE_BYTE == ELF64_OFF_SIZE
E_FLAGS_START_BYTE == E_SHOFF_START_BYTE + E_SHOFF_SIZE_BYTE
E_FLAGS_SIZE_BYTE == ELF64_WORD_SIZE
E_EHSIZE_START_BYTE == E_FLAGS_START_BYTE + E_FLAGS_SIZE_BYTE
E_EHSIZE_SIZE_BYTE == ELF64_HALF_SIZE
E_PHENTSIZE_START_BYTE == E_EHSIZE_START_BYTE + E_EHSIZE_SIZE_BYTE
E_PHENTSIZE_SIZE_BYTE == ELF64_HALF_SIZE
E_PHNUM_START_BYTE == E_PHENTSIZE_START_BYTE + E_PHENTSIZE_SIZE_BYTE
E_PHNUM_SIZE_BYTE == ELF64_HALF_SIZE
E_SHENTSIZE_START_BYTE == E_PHNUM_START_BYTE + E_PHNUM_SIZE_BYTE
E_SHENTSIZE_SIZE_BYTE == ELF64_HALF_SIZE
E_SHNUM_START_BYTE == E_SHENTSIZE_START_BYTE + E_SHENTSIZE_SIZE_BYTE
E_SHNUM_SIZE_BYTE == ELF64_HALF_SIZE
E_SHSTRNDX_START_BYTE == E_SHNUM_START_BYTE + E_SHNUM_SIZE_BYTE

\* widths, in bytes, of the integer types the getters cast to
U16 == 2
U32 == 4
U64 == 8

\* i32::MAX, the largest value parse::<i32> accepts
I32_MAX == 2147483647

\* ------------------------------------------------- fixed-width arithmetic
RECURSIVE BitOr(_, _)
\* a | b on two bytes
BitOr(a, b) ==
    IF a = 0 THEN b
    ELSE IF b = 0 THEN a
    ELSE (IF (a % 2) + (b % 2) > 0 THEN 1 ELSE 0) + 2 * BitOr(a \div 2, b \div 2)

\* b as uN: a byte widened to an integer of w bytes
Cast(b, w) == [i \in 1..w |-> IF i = 1 THEN b ELSE 0]

\* x << n for n a multiple of 8; digits shifted past the width are lost
Shl(x, n) ==
    [i \in 1..Len(x) |-> IF i - (n \div 8) >= 1 THEN x[i - (n \div 8)] ELSE 0]

\* x | y on two integers of the same width
Or(x, y) == [i \in 1..Len(x) |-> BitOr(x[i], y[i])]

\* the value of an integer of at most 3 bytes as a number
ToInt(x) ==
    LET RECURSIVE Val(_)
        Val(i) == IF i > Len(x) THEN 0 ELSE x[i] + 256 * Val(i + 1)
    IN Val(1)

\* self.file[k]
At(file, k) == file[k + 1]

\* ------------------------------------------------------------ conversions
IsZero(x) == \A i \in 1..Len(x) : x[i] = 0

\* x divided by 10: quotient (same width) and remainder, by long division
DivMod10(x) ==
    LET RECURSIVE Step(_, _, _)
        Step(i, r, q) ==
            IF i = 0 THEN [q |-> q, r |-> r]
            ELSE LET cur == r * 256 + x[i]
                 IN Step(i - 1, cur % 10, [q EXCEPT ![i] = cur \div 10])
    IN Step(Len(x), 0, x)

RECURSIVE DecDigits(_)
DecDigits(x) ==
    IF IsZero(x) THEN <<>>
    ELSE LET dm == DivMod10(x) IN Append(DecDigits(dm.q), dm.r)

\* u8/u32/u64 .to_string(): the decimal digits of x
to_string(x) == IF IsZero(x) THEN <<0>> ELSE DecDigits(x)

\* string.parse::<i32>() on a string of decimal digits: Ok(n), or Err when
\* the string is empty or the value exceeds i32::MAX
parse_i32(s) ==
    LET RECURSIVE Go(_, _)
        Go(j, acc) ==
            IF j > Len(s) THEN [ok |-> TRUE, val |-> acc]
            ELSE IF acc > I32_MAX \div 10 THEN [ok |-> FALSE, val |-> 0]
            ELSE IF acc * 10 > I32_MAX - s[j] THEN [ok |-> FALSE, val |-> 0]
            ELSE Go(j + 1, acc * 10 + s[j])
    IN IF Len(s) = 0 THEN [ok |-> FALSE, val |-> 0] ELSE Go(1, 0)

RECURSIVE HexDigits(_)
HexDigits(n) == IF n = 0 THEN <<>> ELSE Append(HexDigits(n \div 16), n % 16)

\* format!("{:#x}", n) for n >= 0: the hexadecimal digits after "0x"
format_hex(n) == IF n = 0 THEN <<0>> ELSE HexDigits(n)

\* ------------------------------------------------------------------ Loader
\* A faulty variant of is_elf that compares only the first three bytes.
is_elf_three_bytes(file) == SubSeq(file, 1, 3) = SubSeq(HEADER_MAGIC, 1, 3)

\* self.file[0..4] == HEADER_MAGIC (the slice panics on a file of fewer
\* than 4 bytes: see RetainStep)
is_elf(file) == SubSeq(file, 1, 4) = HEADER_MAGIC

get_ei_class(file) ==
    CASE At(file, 4) = 1 -> "32bit architecture"
      [] At(file, 4) = 2 -> "64bit architecture"
      [] OTHER -> "Invalid class"

get_ei_data(file) ==
    CASE At(file, 5) = 1 -> "Little endian"
      [] At(file, 5) = 2 -> "Big endian"
      [] OTHER -> "Invalid data"

get_ei_version(file) == Cast(At(file, 6), 1)

\* (file[start + 1] as uN) << 8 | (file[start] as uN)
Read2(file, start, w) ==
    Or(Shl(Cast(At(file, start + 1), w), 8), Cast(At(file, start), w))

\* (file[start + 3] as uN) << 24 | (file[start + 2] as uN) << 16
\*   | (file[start + 1] as uN) << 8 | (file[start] as uN)
Read4(file, start, w) ==
    Or(Or(Or(Shl(Cast(At(file, start + 3), w), 24),
             Shl(Cast(At(file, start + 2), w), 16)),
          Shl(Cast(At(file, start + 1), w), 8)),
       Cast(At(file, start), w))

\* A faulty variant of get_e_type whose OS-specific arm lacks 0xfeff.
get_e_type_without_feff(file) ==
    LET v == ToInt(Read2(file, E_TYPE_START_BYTE, U16))
    IN CASE v = 0 -> "No file type"
         [] v = 1 -> "Relocatable file"
         [] v = 2 -> "Executable file"
         [] v = 3 -> "Shared object file"
         [] v = 4 -> "Core file"
         [] v \in {65024} -> "Operating system-specific"
         [] v \in {65280, 65535} -> "Processor-specific"
         [] OTHER -> "Invalid type"

get_e_type(file) ==
    LET v == ToInt(Read2(file, E_TYPE_START_BYTE, U16))
    IN CASE v = 0 -> "No file type"
         [] v = 1 -> "Relocatable file"
         [] v = 2 -> "Executable file"
         [] v = 3 -> "Shared object file"
         [] v = 4 -> "Core file"
         [] v \in {65024, 65279} -> "Operating system-specific"
         [] v \in {65280, 65535} -> "Processor-specific"
         [] OTHER -> "Invalid type"

\* ElfMachineType::as_str, by discriminant
as_str(code) ==
    CASE code = 0 -> "None"
      [] code = 2 -> "SPARC"
      [] code = 3 -> "x86"
      [] code = 18 -> "SPARC 32+"
      [] code = 40 -> "ARM"
      [] code = 62 -> "AMD64"
      [] code = 190 -> "CUDA"
      [] code = 224 -> "AMD GPU"
      [] code = 243 -> "RISC-V"

\* Option<&str>: Some(label) or None
get_e_machine(file) ==
    LET machine_type == ToInt(Read2(file, E_MACHINE_START_BYTE, U16))
    IN IF machine_type \in {0, 2, 3, 18, 40, 62, 190, 224, 243}
       THEN [some |-> TRUE, val |-> as_str(machine_type)]
       ELSE [some |-> FALSE, val |-> ""]

get_e_version(file) == Read4(file, E_VERSION_START_BYTE, U64)

get_e_entry(file) == Read4(file, E_ENTRY_START_BYTE, U64)

get_e_phoff(file) == Read4(file, E_PHOFF_START_BYTE, U64)

get_e_shoff(file) == Read4(file, E_SHOFF_START_BYTE, U64)

get_e_flags(file) == Read4(file, E_FLAGS_START_BYTE, U32)

get_e_ehsize(file) == Read2(file, E_EHSIZE_START_BYTE, U32)

get_e_phentsize(file) == Read2(file, E_PHENTSIZE_START_BYTE, U32)

get_e_phnum(file) == Read2(file, E_PHNUM_START_BYTE, U32)

get_e_shentsize(file) == Read2(file, E_SHENTSIZE_START_BYTE, U32)

get_e_shnum(file) == Read2(file, E_SHNUM_START_BYTE, U32)

get_e_shstrndx(file) == Read2(file, E_SHSTRNDX_START_BYTE, U32)

\* The pushes of main's decode loop, in order: the key of the result table
\* and the highest file offset the getter indexes.
FieldOrder ==
    << [key |-> "EI_CLASS", hi |-> 4],
       [key |-> "EI_DATA", hi |-> 5],
       [key |-> "EI_VERSION", hi |-> 6],
       [key |-> "E_TYPE", hi |-> E_TYPE_START_BYTE + 1],
       [key |-> "E_MACHINE", hi |-> E_MACHINE_START_BYTE + 1],
       [key |-> "E_VERSION", hi |-> E_VERSION_START_BYTE + 3],
       [key |-> "E_ENTRY", hi |-> E_ENTRY_START_BYTE + 3],
       [key |-> "E_PHOFF", hi |-> E_PHOFF_START_BYTE + 3],
       [key |-> "E_SHOFF", hi |-> E_SHOFF_START_BYTE + 3],
       [key |-> "E_FLAGS", hi |-> E_FLAGS_START_BYTE + 3],
       [key |-> "E_EHSIZE", hi |-> E_EHSIZE_START_BYTE + 1],
       [key |-> "E_PHENTSIZE", hi |-> E_PHENTSIZE_START_BYTE + 1],
       [key |-> "E_PHNUM", hi |-> E_PHNUM_START_BYTE + 1],
       [key |-> "E_SHENTSIZE", hi |-> E_SHENTSIZE_START_BYTE + 1],
       [key |-> "E_SHNUM", hi |-> E_SHNUM_START_BYTE + 1],
       [key |-> "E_SHSTRNDX", hi |-> E_SHSTRNDX_START_BYTE + 1] >>

\* loader.get_X().to_string(): the string pushed under a key
FieldValue(key, file) ==
    CASE key = "EI_CLASS" -> get_ei_class(file)
      [] key = "EI_DATA" -> get_ei_data(file)
      [] key = "EI_VERSION" -> to_string(get_ei_version(file))
      [] key = "E_TYPE" -> get_e_type(file)
      [] key = "E_MACHINE" -> get_e_machine(file).val
      [] key = "E_VERSION" -> to_string(get_e_version(file))
      [] key = "E_ENTRY" -> to_string(get_e_entry(file))
      [] key = "E_PHOFF" -> to_string(get_e_phoff(file))
      [] key = "E_SHOFF" -> to_string(get_e_shoff(file))
      [] key = "E_FLAGS" -> to_string(get_e_flags(file))
      [] key = "E_EHSIZE" -> to_string(get_e_ehsize(file))
      [] key = "E_PHENTSIZE" -> to_string(get_e_phentsize(file))
      [] key = "E_PHNUM" -> to_string(get_e_phnum(file))
      [] key = "E_SHENTSIZE" -> to_string(get_e_shentsize(file))
      [] key = "E_SHNUM" -> to_string(get_e_shnum(file))
      [] key = "E_SHSTRNDX" -> to_string(get_e_shstrndx(file))

\* results.entry(key).or_insert(Vec::new()): the table with the key present,
\* mapped to an empty vector when it was absent
OrInsert(res, key) ==
    [k \in DOMAIN res \cup {key} |-> IF k \in DOMAIN res THEN res[k] ELSE <<>>]

\* results.entry(key).or_insert(Vec::new()).push(v)
Push(res, key, v) ==
    LET r == OrInsert(res, key)
    IN [r EXCEPT ![key] = Append(r[key], v)]

RECURSIVE PushFields(_, _, _)
\* The body of the decode loop for one file, from push j on: every push up
\* to the first getter that indexes past the end of the file (ok = FALSE:
\* that getter panics).  The receiver entry(key).or_insert(..) of a push is
\* evaluated before its argument, so the key of the panicking getter is in
\* the table, with an empty vector if it was absent.  get_e_machine is
\* called in the condition of the if let, before any entry: its key is
\* touched only when the getter returns Some.
PushFields(res, file, j) ==
    IF j > Len(FieldOrder) THEN [results |-> res, ok |-> TRUE]
    ELSE LET fld == FieldOrder[j]
         IN IF fld.key = "E_MACHINE"
            THEN IF fld.hi >= Len(file) THEN [results |-> res, ok |-> FALSE]
                 ELSE IF ~get_e_machine(file).some
                 THEN PushFields(res, file, j + 1)
                 ELSE PushFields(Push(res, fld.key, FieldValue(fld.key, file)),
                                 file, j + 1)
            ELSE IF fld.hi >= Len(file)
                 THEN [results |-> OrInsert(res, fld.key), ok |-> FALSE]
                 ELSE PushFields(Push(res, fld.key, FieldValue(fld.key, file)),
                                 file, j + 1)

\* ------------------------------------------------------------- rendering
\* The display_elem calls of main, in order.
DisplayOrder ==
    << [title |-> "Architecture", key |-> "EI_CLASS", hex |-> FALSE, suffix |-> ""],
       [title |-> "Endian", key |-> "EI_DATA", hex |-> FALSE, suffix |-> ""],
       [title |-> "ELF Header Version", key |-> "EI_VERSION", hex |-> FALSE, suffix |-> ""],
       [title |-> "File Type", key |-> "E_TYPE", hex |-> FALSE, suffix |-> ""],
       [title |-> "Machine Type", key |-> "E_MACHINE", hex |-> FALSE, suffix |-> ""],
       [title |-> "Object File Version", key |-> "E_VERSION", hex |-> TRUE, suffix |-> ""],
       [title |-> "Entry Point", key |-> "E_ENTRY", hex |-> TRUE, suffix |-> ""],
       [title |-> "Program Header Offset", key |-> "E_PHOFF", hex |-> TRUE, suffix |-> ""],
       [title |-> "Section Header Offset", key |-> "E_SHOFF", hex |-> TRUE, suffix |-> ""],
       [title |-> "Flags", key |-> "E_FLAGS", hex |-> FALSE, suffix |-> ""],
       [title |-> "Header's Size", key |-> "E_EHSIZE", hex |-> FALSE, suffix |-> " bytes"],
       [title |-> "Per Program Header's Size", key |-> "E_PHENTSIZE", hex |-> FALSE, suffix |-> " bytes"],
       [title |-> "Program Header's Number", key |-> "E_PHNUM", hex |-> FALSE, suffix |-> ""],
       [title |-> "Per Section Header's Size", key |-> "E_SHENTSIZE", hex |-> FALSE, suffix |-> " bytes"],
       [title |-> "Section Header's Number", key |-> "E_SHNUM", hex |-> FALSE, suffix |-> ""],
       [title |-> "Entry Index", key |-> "E_SHSTRNDX", hex |-> FALSE, suffix |-> ""] >>

\* display_elem(key, values, hex, suffix): the printed line (its cells in
\* order).  A hex cell that does not parse as an i32 makes the function
\* panic with "Illegal instruction" (ok = FALSE); the line then holds the
\* cells printed before it and has no newline.
display_elem(key, values, hex, suffix) ==
    LET Bad == {i \in 1..Len(values) : hex /\ ~parse_i32(values[i]).ok}
        n == IF Bad = {} THEN Len(values)
             ELSE (CHOOSE i \in Bad : \A j \in Bad : i <= j) - 1
        Cell(string) ==
            IF hex THEN [text |-> format_hex(parse_i32(string).val), suffix |-> suffix]
            ELSE [text |-> string, suffix |-> suffix]
    IN [ok |-> Bad = {},
        line |-> [kind |-> IF Bad = {} THEN "row" ELSE "partial", key |-> key,
                  cells |-> [i \in 1..n |-> Cell(values[i])]]]

\* ------------------------------------------------------------ input files
Reverse(x) == [i \in 1..Len(x) |-> x[Len(x) + 1 - i]]

\* A 64-byte header whose multi-byte fields hold the given values (each given
\* least significant byte first), stored in the byte order that the
\* data-encoding byte declares: as given for 1, reversed for 2.
Hdr(magic, data, type, mach, ver, entry, phoff, shoff) ==
    LET St(x) == IF data = 2 THEN Reverse(x) ELSE x
    IN magic \o <<2, data, 1>> \o <<0, 0, 0, 0, 0, 0, 0, 0, 0>>
       \o St(type) \o St(mach) \o St(ver) \o St(entry) \o St(phoff) \o St(shoff)
       \o St(<<0, 0, 0, 0>>) \o St(<<64, 0>>) \o St(<<56, 0>>) \o St(<<9, 0>>)
       \o St(<<64, 0>>) \o St(<<30, 0>>) \o St(<<29, 0>>)

LowEntry == <<0, 16, 64, 0, 0, 0, 0, 0>>
HighEntry == <<0, 0, 0, 128, 0, 0, 0, 0>>
LowPhoff == <<64, 0, 0, 0, 0, 0, 0, 0>>
WidePhoff == <<64, 0, 0, 0, 1, 0, 0, 0>>
LowShoff == <<200, 50, 0, 0, 0, 0, 0, 0>>
WideShoff == <<0, 0, 0, 0, 0, 0, 0, 1>>
Ver1 == <<1, 0, 0, 0>>

\* A well-formed little-endian header with the given object type and machine.
Plain(type, mach) == Hdr(HEADER_MAGIC, 1, type, mach, Ver1, LowEntry, LowPhoff, LowShoff)

File(bytes) == [exists |-> TRUE, bytes |-> bytes]

\* The paths of the run's file system and what Loader::open finds there.
FileSystem ==
    [ exec     |-> File(Plain(<<2, 0>>, <<62, 0>>)),
      reloc    |-> File(Plain(<<1, 0>>, <<3, 0>>)),
      shared   |-> File(Plain(<<3, 0>>, <<40, 0>>)),
      core     |-> File(Plain(<<4, 0>>, <<2, 0>>)),
      notype   |-> File(Plain(<<0, 0>>, <<0, 0>>)),
      os_lo    |-> File(Plain(<<0, 254>>, <<18, 0>>)),
      os_hi    |-> File(Plain(<<255, 254>>, <<243, 0>>)),
      proc_lo  |-> File(Plain(<<0, 255>>, <<190, 0>>)),
      proc_hi  |-> File(Plain(<<255, 255>>, <<224, 0>>)),
      type5    |-> File(Plain(<<5, 0>>, <<183, 0>>)),
      os_mid   |-> File(Plain(<<1, 254>>, <<255, 255>>)),
      hientry  |-> File(Hdr(HEADER_MAGIC, 1, <<2, 0>>, <<243, 0>>, Ver1,
                            HighEntry, LowPhoff, LowShoff)),
      wideoff  |-> File(Hdr(HEADER_MAGIC, 1, <<2, 0>>, <<62, 0>>, Ver1,
                            LowEntry, WidePhoff, WideShoff)),
      exec_be  |-> File(Hdr(HEADER_MAGIC, 2, <<2, 0>>, <<62, 0>>, Ver1,
                            LowEntry, LowPhoff, LowShoff)),
      longer   |-> File(Plain(<<2, 0>>, <<62, 0>>) \o <<1, 2, 3>>),
      bad0     |-> File(Hdr(<<0, 69, 76, 70>>, 1, <<2, 0>>, <<62, 0>>, Ver1,
                            LowEntry, LowPhoff, LowShoff)),
      bad3     |-> File(Hdr(<<127, 69, 76, 71>>, 1, <<3, 0>>, <<255, 255>>, Ver1,
                            HighEntry, WidePhoff, LowShoff)),
      bad4     |-> File(<<127, 69, 76, 0>>),
      bad10    |-> File(<<77, 90, 144, 0, 3, 0, 0, 0, 4, 0>>),
      tiny2    |-> File(<<127, 69>>),
      magic4   |-> File(HEADER_MAGIC),
      trunc10  |-> File(SubSeq(Plain(<<2, 0>>, <<62, 0>>), 1, 10)),
      trunc63  |-> File(SubSeq(Plain(<<2, 0>>, <<62, 0>>), 1, 63)),
      missing  |-> [exists |-> FALSE, bytes |-> <<>>] ]

Paths == DOMAIN FileSystem

\* ------------------------------------------------------------------ state
VARIABLES
    argv,      \* env::args().skip(1): the path arguments, fixed for the run
    args,      \* the Vec that retain filters
    kept,      \* retain: the number of leading elements of args already tested
    ni,        \* the number of arguments the "is not an ELF file" loop has passed
    di,        \* the number of files the decode loop has decoded
    results,   \* the HashMap: key -> Vec of strings
    read,      \* the paths a field getter has been evaluated on
    out,       \* the lines printed
    pc,        \* "run", "done" (main returned) or "panic"
    panic      \* the panic message and the path or key it arose at

vars == <<argv, args, kept, ni, di, results, read, out, pc, panic>>

NoPanic == [msg |-> "", at |-> ""]

RECURSIVE SeqsUpTo(_)
\* the sequences of at most n paths
SeqsUpTo(n) ==
    IF n = 0 THEN {<<>>}
    ELSE SeqsUpTo(n - 1)
         \cup {Append(s, p) : s \in {t \in SeqsUpTo(n - 1) : Len(t) = n - 1}, p \in Paths}

Contains(s, x) == \E i \in 1..Len(s) : s[i] = x

RemoveAt(s, i) == SubSeq(s, 1, i - 1) \o SubSeq(s, i + 1, Len(s))

Init ==
    /\ argv \in SeqsUpTo(MaxArgs)
    /\ args = argv
    /\ kept = 0
    /\ ni = 0
    /\ di = 0
    /\ results = [k \in {} |-> <<>>]
    /\ read = {}
    /\ out = <<>>
    /\ pc = "run"
    /\ panic = NoPanic

\* ---------------------------------------------------------------- actions
\* One call of the closure of args.retain: open the next path and test its
\* signature.  An open error and a file of fewer than 4 bytes both panic.
RetainStep ==
    /\ pc = "run"
    /\ kept < Len(args)
    /\ LET arg == args[kept + 1]
           loaded == FileSystem[arg]
       IN IF ~loaded.exists
          THEN /\ pc' = "panic"
               /\ panic' = [msg |-> "Error", at |-> arg]
               /\ UNCHANGED <<args, kept>>
          ELSE IF Len(loaded.bytes) < 4
          THEN /\ pc' = "panic"
               /\ panic' = [msg |-> "range end index 4 out of range for slice", at |-> arg]
               /\ UNCHANGED <<args, kept>>
          ELSE IF is_elf(loaded.bytes)
          THEN /\ kept' = kept + 1
               /\ UNCHANGED <<args, pc, panic>>
          ELSE /\ args' = RemoveAt(args, kept + 1)
               /\ UNCHANGED <<kept, pc, panic>>
    /\ UNCHANGED <<argv, ni, di, results, read, out>>

\* One iteration of the loop over env::args().skip(1) that reports the
\* arguments retain dropped.
NoticeStep ==
    /\ pc = "run"
    /\ kept = Len(args)
    /\ ni < Len(argv)
    /\ LET arg == argv[ni + 1]
       IN out' = IF ~Contains(args, arg)
                 THEN Append(out, [kind |-> "notelf", path |-> arg])
                 ELSE out
    /\ ni' = ni + 1
    /\ UNCHANGED <<argv, args, kept, di, results, read, pc, panic>>

\* One iteration of the decode loop: open the file again and push every
\* field; a getter that indexes past the end of the file panics, leaving in
\* results the pushes made before it and the entry of its own key.
DecodeStep ==
    /\ pc = "run"
    /\ kept = Len(args)
    /\ ni = Len(argv)
    /\ di < Len(args)
    /\ LET arg == args[di + 1]
           loader == FileSystem[arg]
           r == PushFields(results, loader.bytes, 1)
       IN IF ~loader.exists
          THEN /\ pc' = "panic"
               /\ panic' = [msg |-> "There was a problem opening the file", at |-> arg]
               /\ UNCHANGED <<di, results, read>>
          ELSE /\ read' = read \cup {arg}
               /\ results' = r.results
               /\ IF r.ok
                  THEN /\ di' = di + 1
                       /\ UNCHANGED <<pc, panic>>
                  ELSE /\ pc' = "panic"
                       /\ panic' = [msg |-> "index out of bounds", at |-> arg]
                       /\ UNCHANGED di
    /\ UNCHANGED <<argv, args, kept, ni, out>>

RECURSIVE RenderRows(_, _, _)
\* The display_elem calls from the j-th on: results.get(key).unwrap()
\* panics on a key that was never pushed, display_elem on a hex cell that is
\* no i32 (after printing the cells before it).  Returns the lines printed
\* and the panic, if any.
RenderRows(res, o, j) ==
    IF j > Len(DisplayOrder) THEN [out |-> o, panic |-> NoPanic]
    ELSE LET d == DisplayOrder[j]
         IN IF d.key \notin DOMAIN res
            THEN [out |-> o,
                  panic |-> [msg |-> "called Option::unwrap() on a None value",
                             at |-> d.key]]
            ELSE LET r == display_elem(d.title, res[d.key], d.hex, d.suffix)
                 IN IF ~r.ok
                    THEN [out |-> Append(o, r.line),
                          panic |-> [msg |-> "Illegal instruction", at |-> d.key]]
                    ELSE RenderRows(res, Append(o, r.line), j + 1)

\* The rest of main: the "File" line with one column per retained argument,
\* then the rows.
Render ==
    /\ pc = "run"
    /\ kept = Len(args)
    /\ ni = Len(argv)
    /\ di = Len(args)
    /\ LET r == RenderRows(results, Append(out, [kind |-> "header", cols |-> args]), 1)
       IN /\ out' = r.out
          /\ panic' = r.panic
          /\ pc' = IF r.panic = NoPanic THEN "done" ELSE "panic"
    /\ UNCHANGED <<argv, args, kept, ni, di, results, read>>

Next == RetainStep \/ NoticeStep \/ DecodeStep \/ Render

Spec == Init /\ [][Next]_vars

\* ------------------------------------------------- vocabulary of the claims
Bytes(p) == FileSystem[p].bytes

\* an existing file of at least 4 bytes whose first 4 bytes are not 7F 45 4C 46
BadMagic(p) ==
    /\ FileSystem[p].exists
    /\ Len(Bytes(p)) >= 4
    /\ \E k \in 1..4 : Bytes(p)[k] # HEADER_MAGIC[k]

\* an existing file of at least 4 bytes whose first 4 bytes are 7F 45 4C 46
GoodMagic(p) ==
    /\ FileSystem[p].exists
    /\ Len(Bytes(p)) >= 4
    /\ \A k \in 1..4 : Bytes(p)[k] = HEADER_MAGIC[k]

\* an existing file of fewer than 64 bytes
Short(p) == FileSystem[p].exists /\ Len(Bytes(p)) < 64

\* the number of "is not an ELF file" lines printed for path p
NoticeCount(p) ==
    Cardinality({j \in 1..Len(out) : out[j].kind = "notelf" /\ out[j].path = p})

\* the number of occurrences of x among the first n elements of s
Occ(s, x, n) == Cardinality({i \in 1..n : s[i] = x})

HeaderPrinted == \E j \in 1..Len(out) : out[j].kind = "header"

\* the columns of the "File" line
HeaderCols == out[CHOOSE j \in 1..Len(out) : out[j].kind = "header"].cols

\* the 16-bit value stored least significant byte first at offset k
LE16(f, k) == f[k + 1] + 256 * f[k + 2]

\* the object type of a 16-bit value, as the specification tabulates it
ObjectTypeOf(v) ==
    CASE v = 0 -> "None"
      [] v = 1 -> "Relocatable"
      [] v = 2 -> "Executable"
      [] v = 3 -> "Shared"
      [] v = 4 -> "Core"
      [] v = 65024 \/ v = 65279 -> "OsSpecific"
      [] v = 65280 \/ v = 65535 -> "ProcSpecific"
      [] OTHER -> "Invalid"

\* the label the program prints for an object type
ObjectTypeLabel(t) ==
    CASE t = "None" -> "No file type"
      [] t = "Relocatable" -> "Relocatable file"
      [] t = "Executable" -> "Executable file"
      [] t = "Shared" -> "Shared object file"
      [] t = "Core" -> "Core file"
      [] t = "OsSpecific" -> "Operating system-specific"
      [] t = "ProcSpecific" -> "Processor-specific"
      [] t = "Invalid" -> "Invalid type"

\* the byte ranges (first and last offset) of the multi-byte header fields
MultiByteRanges ==
    { <<16, 17>>, <<18, 19>>, <<20, 23>>, <<24, 31>>, <<32, 39>>, <<40, 47>>,
      <<48, 51>>, <<52, 53>>, <<54, 55>>, <<56, 57>>, <<58, 59>>, <<60, 61>>,
      <<62, 63>> }

\* the keys of the multi-byte fields that every decoded file pushes
MultiByteKeys ==
    { "E_TYPE", "E_VERSION", "E_ENTRY", "E_PHOFF", "E_SHOFF", "E_FLAGS", "E_EHSIZE",
      "E_PHENTSIZE", "E_PHNUM", "E_SHENTSIZE", "E_SHNUM", "E_SHSTRNDX" }

\* The little-endian twin of a big-endian header: data-encoding byte 1 and
\* the bytes of every multi-byte field in reversed order.
SwapEndian(f) ==
    [i \in 1..Len(f) |->
        IF i = 6 THEN 1
        ELSE IF \E r \in MultiByteRanges : r[1] + 1 <= i /\ i <= r[2] + 1
        THEN LET r == CHOOSE r \in MultiByteRanges : r[1] + 1 <= i /\ i <= r[2] + 1
             IN f[r[1] + 1 + r[2] + 1 - i]
        ELSE f[i]]

\* ------------------------------------------------------------------ claims
\* C1: a file of at least 4 bytes whose first 4 bytes are not 7F 45 4C 46 is
\* rejected by the signature check whatever its other bytes are: it is never
\* among the arguments retain has kept, no field getter is ever evaluated on
\* it, it is in no column of the "File" line, and once the reporting loop has
\* passed an occurrence of it, that occurrence has its own
\* "is not an ELF file" line.
C1_SignatureRejects ==
    \A i \in 1..Len(argv) :
        BadMagic(argv[i]) =>
            /\ argv[i] \notin read
            /\ ~Contains(SubSeq(args, 1, kept), argv[i])
            /\ NoticeCount(argv[i]) = Occ(argv, argv[i], ni)
            /\ HeaderPrinted => ~Contains(HeaderCols, argv[i])

\* A run that completed with a rejected file reported and another file decoded.
C1_Witness ==
    /\ pc = "done"
    /\ read # {}
    /\ \E i \in 1..Len(argv) :
          BadMagic(argv[i]) /\ Len(Bytes(argv[i])) = 64 /\ NoticeCount(argv[i]) = 1

\* C2: a file shorter than 64 bytes yields a per-file Truncated error: it
\* never makes the run panic on an out-of-range read, and no value decoded
\* from it enters the result table.
C2_TruncatedIsPerFileError ==
    \A i \in 1..Len(argv) :
        Short(argv[i]) =>
            /\ ~(pc = "panic" /\ panic.at = argv[i])
            /\ argv[i] \notin read

\* C3: a big-endian header decodes to the same values as its little-endian
\* twin (data-encoding byte 1, every multi-byte field byte-reversed).
C3_EndiannessIndependent ==
    \A i \in 1..di :
        LET f == Bytes(args[i])
        IN f[6] = 2 =>
              /\ \A k \in MultiByteKeys : results[k][i] = FieldValue(k, SwapEndian(f))
              /\ get_e_machine(f) = get_e_machine(SwapEndian(f))

\* C4: for a little-endian header the decoded program header offset is the
\* 64-bit integer formed from all eight bytes 32..39, and the decoded
\* section header offset the one formed from all eight bytes 40..47.
C4_OffsetsUseEightBytes ==
    \A i \in 1..di :
        LET f == Bytes(args[i])
        IN f[6] = 1 =>
              /\ results["E_PHOFF"][i] = to_string(SubSeq(f, 33, 40))
              /\ results["E_SHOFF"][i] = to_string(SubSeq(f, 41, 48))

\* C5: the object type decoded for a file is the one the table gives for the
\* 16-bit little-endian value at bytes 16..17 (0..4 the five named types,
\* 0xFE00 and 0xFEFF OS-specific, 0xFF00 and 0xFFFF processor-specific,
\* anything else Invalid), and no value aborts the decoding: the decode loop
\* panics only on a file shorter than 64 bytes.
C5_ObjectTypeTotal ==
    /\ \A i \in 1..di :
          results["E_TYPE"][i] = ObjectTypeLabel(ObjectTypeOf(LE16(Bytes(args[i]), 16)))
    /\ (pc = "panic" /\ panic.msg = "index out of bounds") => Len(Bytes(panic.at)) < 64

\* A completed run that decoded 0xFEFF as OS-specific and an unlisted value
\* as Invalid.
C5_Witness ==
    /\ pc = "done"
    /\ \E i \in 1..di :
          /\ LE16(Bytes(args[i]), 16) = 65279
          /\ results["E_TYPE"][i] = "Operating system-specific"
    /\ \E i \in 1..di :
          /\ LE16(Bytes(args[i]), 16) = 5
          /\ results["E_TYPE"][i] = "Invalid type"

\* C6: a machine value of the table decodes to its label, and a machine value
\* outside the table is no error: the run never panics for want of a machine
\* value, also when no accepted file has a recognized machine.
C6_UnknownMachineIsNotError ==
    /\ \A i \in 1..di :
          LET code == LE16(Bytes(args[i]), 18)
          IN code \in {0, 2, 3, 18, 40, 62, 190, 224, 243} =>
                Contains(results["E_MACHINE"], as_str(code))
    /\ ~(pc = "panic" /\ panic.at = "E_MACHINE")

\* C7: when the run has ended, every argument that fails the signature check
\* has exactly one "is not an ELF file" line per occurrence and is in no
\* column, and the columns of the "File" line are the arguments that pass the
\* signature check, in input order.
C7_BatchPartition ==
    pc \in {"done", "panic"} =>
        /\ \A i \in 1..Len(argv) :
              BadMagic(argv[i]) => NoticeCount(argv[i]) = Occ(argv, argv[i], Len(argv))
        /\ (\E i \in 1..Len(argv) : GoodMagic(argv[i])) =>
              HeaderPrinted /\ HeaderCols = SelectSeq(argv, GoodMagic)

\* C8: the run never panics, whatever the per-file outcomes are, also when no
\* file is accepted.
C8_RunNeverPanics == pc # "panic"

\* C9: after k files have been decoded, every key of the result table maps to
\* exactly k values, the i-th decoded from the i-th accepted file.
C9_TableAligned ==
    pc # "panic" =>
        \A k \in DOMAIN results :
            /\ Len(results[k]) = di
            /\ \A i \in 1..di : results[k][i] = FieldValue(k, Bytes(args[i]))

\* C10: display_elem never reaches its "Illegal instruction" panic on a
\* value decoded from 4 bytes.
C10_HexRenderingTotal == ~(pc = "panic" /\ panic.msg = "Illegal instruction")

====
